---- MODULE Spec2Model ----
(***************************************************************************)
(* Model of shp2ply.py: the Streamlit script main() that loads a zipped    *)
(* shapefile, filters it to polygons, reprojects it and serializes it to a *)
(* Geosoft PLY text with geodf_to_ply_string().                            *)
(*                                                                         *)
(* Coordinates are fixed-point numbers counted in thousandths; a formatted *)
(* coordinate ("%.2f") is a sign and a count of hundredths.  A text is the *)
(* sequence of its newline-terminated lines.                               *)
(***************************************************************************)
EXTENDS Integers, Sequences, FiniteSets, TLC

\* ------------------------------------------------------------------ bounds
MaxFeatures == 3
MaxParts == 2
MaxVerts == 3
RingPeriod == 2

\* ------------------------------------------------------- program constants
FallbackEPSG == 4326
PreviewLines == 50

\* EPSG codes the projection library knows, and one it does not.
KnownEPSG == {FallbackEPSG, 32632, 32633}

\* Values the user may type into the "Output EPSG" input.
TypedEPSG == {32633, 0}

\* Values the user may type into the "Output PLY file name" input.
TypedFileNames == {"", "area.ply"}

\* --------------------------------------------------------------- geometry
\* An optional value: absent, or present with its value.
Absent == [set |-> FALSE, val |-> <<>>]
Some(v) == [set |-> TRUE, val |-> v]

\* The i-th vertex of the vertex supply, (x, y) in thousandths.
VertexAt(i) == <<1005 * i - 2010, 125 * i * i - 126>>

\* A ring of n vertices; with n = RingPeriod + 1 the last vertex repeats the
\* first one (the closing duplicate of a closed ring).
RingOf(n) == [i \in 1..n |-> VertexAt(((i - 1) % RingPeriod) + 1)]

Rings == {RingOf(n) : n \in 0..MaxVerts}

NullGeom == [geom_type |-> "None", exterior |-> <<>>, geoms |-> <<>>]
PointGeom == [geom_type |-> "Point", exterior |-> <<>>, geoms |-> <<>>]
LineGeom == [geom_type |-> "LineString", exterior |-> <<>>, geoms |-> <<>>]
PolygonGeom(ring) == [geom_type |-> "Polygon", exterior |-> ring, geoms |-> <<>>]
MultiPolygonGeom(k) ==
  [geom_type |-> "MultiPolygon", exterior |-> <<>>,
   geoms |-> [j \in 1..k |-> PolygonGeom(RingOf((k + j) % (MaxVerts + 1)))]]

Geoms ==
  {NullGeom, PointGeom, LineGeom}
    \cup {PolygonGeom(r) : r \in Rings}
    \cup {MultiPolygonGeom(k) : k \in 0..MaxParts}

\* A feature collection: rows in file order, each with its row index.
Collections ==
  UNION {{[i \in 1..n |-> [id |-> i, geometry |-> g[i]]] : g \in [1..n -> Geoms]}
           : n \in 0..MaxFeatures}

\* ----------------------------------------------------------------- filter
IsNull(geom) == geom.geom_type = "None"

NotNullRow(row) == ~IsNull(row.geometry)

\* Variant: the type test forgets MultiPolygon.
IsPolygonOnlyRow(row) == row.geometry.geom_type = "Polygon"

IsPolyTypeRow(row) == row.geometry.geom_type \in {"Polygon", "MultiPolygon"}

\* gdf[gdf.geometry.notnull()]
FilterNotNull(gdf) == SelectSeq(gdf, NotNullRow)

\* gdf[gdf.geometry.geom_type.isin(["Polygon", "MultiPolygon"])]
FilterPolyType(gdf) == SelectSeq(gdf, IsPolyTypeRow)

\* Variant: the type mask is computed on the frame before the null rows
\* were dropped and applied by position to the frame after.
FilterPolysStaleMask(gdf) ==
  LET kept == FilterNotNull(gdf)
      idx == {i \in 1..Len(kept) : IsPolyTypeRow(gdf[i])}
      RECURSIVE Pick(_)
      Pick(i) == IF i > Len(kept) THEN <<>>
                 ELSE (IF i \in idx THEN <<kept[i]>> ELSE <<>>) \o Pick(i + 1)
  IN Pick(1)

FilterPolys(gdf) == FilterPolyType(FilterNotNull(gdf))

\* ------------------------------------------------------------- serializer
\* f"{v:.2f}" of a coordinate of v thousandths: the sign is kept even when
\* the digits round to zero ("-0.00"); ties round to the even hundredth.
Abs(v) == IF v < 0 THEN -v ELSE v

Fmt2(v) ==
  LET q == Abs(v) \div 10
      r == Abs(v) % 10
      up == r > 5 \/ (r = 5 /\ q % 2 = 1)
  IN [neg |-> v < 0, cents |-> IF up THEN q + 1 ELSE q]

NoNum == [neg |-> FALSE, cents |-> 0]

\* f"poly {poly_counter}\n"
PolyLine(n) == [kind |-> "poly", n |-> n, x |-> NoNum, y |-> NoNum]

\* f"   {xi:.2f}   {yi:.2f} \n"
VertexLine(xi, yi) == [kind |-> "vertex", n |-> 0, x |-> Fmt2(xi), y |-> Fmt2(yi)]

\* "\n"
BlankLine == [kind |-> "blank", n |-> 0, x |-> NoNum, y |-> NoNum]

\* Variant: the closing duplicate of the first vertex is not written.
WriteRingOpen(buf, ring) ==
  LET n == IF Len(ring) > 1 /\ ring[Len(ring)] = ring[1] THEN Len(ring) - 1 ELSE Len(ring)
  IN buf \o [i \in 1..n |-> VertexLine(ring[i][1], ring[i][2])]

\* for xi, yi in zip(x, y): buf.write(...)
WriteRing(buf, ring) ==
  buf \o [i \in 1..Len(ring) |-> VertexLine(ring[i][1], ring[i][2])]

\* Variant: the increment is lost.
NextCounterStuck(c) == c

\* poly_counter += 1
NextCounter(c) == c + 1

\* The body of "for poly in polygons".
WritePolygon(st, poly) ==
  [buf |-> Append(WriteRing(Append(st.buf, PolyLine(st.poly_counter)), poly.exterior),
                  BlankLine),
   poly_counter |-> NextCounter(st.poly_counter)]

RECURSIVE WritePolygons(_, _, _)
WritePolygons(st, polygons, j) ==
  IF j > Len(polygons) THEN st
  ELSE WritePolygons(WritePolygon(st, polygons[j]), polygons, j + 1)

\* Variant: a skipped geometry still takes a polygon number.
SkipGeomCounts(st) == [st EXCEPT !.poly_counter = @ + 1]

\* "continue": a skipped geometry writes nothing and keeps the counter.
SkipGeom(st) == st

\* The body of "for geom in gdf.geometry".
WriteGeom(st, geom) ==
  IF IsNull(geom) THEN SkipGeom(st)
  ELSE IF geom.geom_type = "MultiPolygon" THEN WritePolygons(st, geom.geoms, 1)
  ELSE IF geom.geom_type = "Polygon" THEN WritePolygons(st, <<geom>>, 1)
  ELSE SkipGeom(st)

RECURSIVE WriteGeoms(_, _, _)
WriteGeoms(st, gdf, i) ==
  IF i > Len(gdf) THEN st
  ELSE WriteGeoms(WriteGeom(st, gdf[i].geometry), gdf, i + 1)

geodf_to_ply_string(gdf) ==
  WriteGeoms([buf |-> <<>>, poly_counter |-> 1], gdf, 1).buf


\* ------------------------------------------------- spatial reference (CRS)
\* gdf.crs: None, a CRS that resolves to an EPSG code, a custom CRS for
\* which to_epsg() returns None, or one for which to_epsg() raises.
NoCRS == [kind |-> "none", code |-> 0]
EpsgCRS(c) == [kind |-> "epsg", code |-> c]
CustomCRS == [kind |-> "custom", code |-> 0]
RaisingCRS == [kind |-> "raising", code |-> 0]

SourceCRSs == {NoCRS, EpsgCRS(FallbackEPSG), EpsgCRS(32632), CustomCRS, RaisingCRS}

\* gdf.crs.to_epsg()
ToEpsg(crs) ==
  [raised |-> crs.kind = "raising",
   value |-> IF crs.kind = "epsg" THEN Some(crs.code) ELSE Absent]

\* epsg_detected: None unless the CRS is set and to_epsg() returns a code.
DetectEpsg(crs) ==
  IF crs.kind # "none"
    THEN (IF ToEpsg(crs).raised THEN Absent ELSE ToEpsg(crs).value)
    ELSE Absent

\* Variant: the detected code is ignored.
DefaultEpsgFixed(detected) == FallbackEPSG

\* default_epsg = epsg_detected if epsg_detected is not None else 4326
DefaultEpsg(detected) == IF detected.set THEN detected.val ELSE FallbackEPSG

\* ---------------------------------------------------------------- loading
ZipKinds == {"ok", "bad_zip", "no_shp", "bad_shp"}

Zips ==
  {[kind |-> k, features |-> <<>>, crs |-> NoCRS] : k \in ZipKinds \ {"ok"}}
    \cup {[kind |-> "ok", features |-> c, crs |-> r] : c \in Collections, r \in SourceCRSs}

\* The file uploader's value: None or an uploaded zip.
Uploads == {Absent} \cup {Some(z) : z \in Zips}

\* load_shapefile_from_zip: raises on an unreadable zip, on a zip without a
\* .shp file and on an unreadable shapefile; otherwise returns the rows as
\* stored, with the CRS of the .prj file (None without one).
load_shapefile_from_zip(zip) ==
  IF zip.kind = "bad_zip" THEN [raised |-> TRUE, cause |-> "BadZipFile", gdf |-> <<>>, crs |-> NoCRS]
  ELSE IF zip.kind = "no_shp" THEN [raised |-> TRUE, cause |-> "FileNotFoundError", gdf |-> <<>>, crs |-> NoCRS]
  ELSE IF zip.kind = "bad_shp" THEN [raised |-> TRUE, cause |-> "DataSourceError", gdf |-> <<>>, crs |-> NoCRS]
  ELSE [raised |-> FALSE, cause |-> "", gdf |-> zip.features, crs |-> zip.crs]

\* ----------------------------------------------------------- reprojection
\* The coordinate transform of the projection library: the identity when
\* the target is the source, a fixed displacement per target otherwise.
TransformVertex(crs, epsg, v) ==
  IF crs.kind = "epsg" /\ crs.code = epsg THEN v
  ELSE <<v[1] + (epsg % 1000), v[2] - (epsg % 1000)>>

TransformRing(crs, epsg, ring) ==
  [i \in 1..Len(ring) |-> TransformVertex(crs, epsg, ring[i])]

TransformPolygon(crs, epsg, poly) ==
  [poly EXCEPT !.exterior = TransformRing(crs, epsg, @)]

TransformGeom(crs, epsg, geom) ==
  [geom EXCEPT !.exterior = TransformRing(crs, epsg, @),
               !.geoms = [j \in 1..Len(@) |-> TransformPolygon(crs, epsg, @[j])]]

\* gdf.to_crs(epsg=...): raises on a collection without a CRS ("naive
\* geometries") and on an EPSG code the library does not know.
ToCrs(gdf, crs, epsg) ==
  IF crs.kind = "none"
    THEN [raised |-> TRUE, cause |-> "naive geometries", gdf |-> <<>>, crs |-> NoCRS]
  ELSE IF epsg \notin KnownEPSG
    THEN [raised |-> TRUE, cause |-> "invalid target", gdf |-> <<>>, crs |-> NoCRS]
  ELSE [raised |-> FALSE, cause |-> "",
        gdf |-> [i \in 1..Len(gdf) |->
                   [gdf[i] EXCEPT !.geometry = TransformGeom(crs, epsg, @)]],
        crs |-> EpsgCRS(epsg)]

\* ply_text.splitlines()[:50]
FirstLines(text, n) == SubSeq(text, 1, IF Len(text) < n THEN Len(text) ELSE n)

\* ------------------------------------------------------------------ state
VARIABLES
  pc,            \* position of the script run in main()
  uploaded_zip,  \* value of the file uploader
  gdf,           \* the collection: loaded, then filtered
  crs,           \* gdf.crs
  epsg_detected,
  default_epsg,
  output_epsg,   \* value of the "Output EPSG" input
  gdf_out,       \* the reprojected collection
  ply_text,
  preview,       \* text shown by st.code
  download,      \* payload of the download button
  err,           \* st.error shown by this run
  steps,         \* pipeline steps executed by this run, in order
  fn_in,        \* a collection handed to the pure functions
  fn_text,      \* geodf_to_ply_string(fn_in)
  fn_flt,       \* the filter applied to fn_in
  fn_flt2,      \* the filter applied to fn_flt
  fn_flt_text   \* geodf_to_ply_string(fn_flt)

fnvars == <<fn_in, fn_text, fn_flt, fn_flt2, fn_flt_text>>

mainvars ==
  <<pc, uploaded_zip, gdf, crs, epsg_detected, default_epsg, output_epsg,
    gdf_out, ply_text, preview, download, err, steps>>

vars == <<mainvars, fnvars>>

\* ------------------------------------- the pure functions on their inputs
\* A script run before its first statement.
Fresh ==
  /\ pc = "start"
  /\ gdf = Absent
  /\ crs = NoCRS
  /\ epsg_detected = Absent
  /\ default_epsg = Absent
  /\ output_epsg = Absent
  /\ gdf_out = Absent
  /\ ply_text = Absent
  /\ preview = Absent
  /\ download = Absent
  /\ err = Absent
  /\ steps = <<>>

FnInit ==
  /\ Fresh
  /\ uploaded_zip = Absent
  /\ fn_in \in Collections
  /\ fn_text = Absent
  /\ fn_flt = Absent
  /\ fn_flt2 = Absent
  /\ fn_flt_text = Absent

ApplySerialize ==
  /\ ~fn_text.set
  /\ fn_text' = Some(geodf_to_ply_string(fn_in))
  /\ UNCHANGED <<fn_in, fn_flt, fn_flt2, fn_flt_text>>
  /\ UNCHANGED mainvars

ApplyFilter ==
  /\ ~fn_flt.set
  /\ fn_flt' = Some(FilterPolys(fn_in))
  /\ UNCHANGED <<fn_in, fn_text, fn_flt2, fn_flt_text>>
  /\ UNCHANGED mainvars

ApplyFilterAgain ==
  /\ fn_flt.set
  /\ ~fn_flt2.set
  /\ fn_flt2' = Some(FilterPolys(fn_flt.val))
  /\ UNCHANGED <<fn_in, fn_text, fn_flt, fn_flt_text>>
  /\ UNCHANGED mainvars

ApplySerializeFiltered ==
  /\ fn_flt.set
  /\ ~fn_flt_text.set
  /\ fn_flt_text' = Some(geodf_to_ply_string(fn_flt.val))
  /\ UNCHANGED <<fn_in, fn_text, fn_flt, fn_flt2>>
  /\ UNCHANGED mainvars

FnNext ==
  \/ ApplySerialize
  \/ ApplyFilter
  \/ ApplyFilterAgain
  \/ ApplySerializeFiltered

FnSpec == FnInit /\ [][FnNext]_vars

\* ------------------------------------------------------- main(), one run
Init ==
  /\ Fresh
  /\ uploaded_zip \in Uploads
  /\ fn_in = <<>>
  /\ fn_text = Absent
  /\ fn_flt = Absent
  /\ fn_flt2 = Absent
  /\ fn_flt_text = Absent

ErrorShown(kind, cause) == Some([kind |-> kind, cause |-> cause])

\* if uploaded_zip is None: st.info(...); return
Upload ==
  /\ pc = "start"
  /\ pc' = IF uploaded_zip.set THEN "load" ELSE "done"
  /\ UNCHANGED <<uploaded_zip, gdf, crs, epsg_detected, default_epsg, output_epsg,
                 gdf_out, ply_text, preview, download, err, steps>>
  /\ UNCHANGED fnvars

\* try: gdf = load_shapefile_from_zip(uploaded_zip) except: st.error; return
Load ==
  /\ pc = "load"
  /\ LET r == load_shapefile_from_zip(uploaded_zip.val) IN
       IF r.raised
         THEN /\ err' = ErrorShown("load", r.cause)
              /\ pc' = "error"
              /\ UNCHANGED <<gdf, crs>>
         ELSE /\ gdf' = Some(r.gdf)
              /\ crs' = r.crs
              /\ pc' = "filter"
              /\ UNCHANGED err
  /\ steps' = Append(steps, "load")
  /\ UNCHANGED <<uploaded_zip, epsg_detected, default_epsg, output_epsg,
                 gdf_out, ply_text, preview, download>>
  /\ UNCHANGED fnvars

\* gdf = gdf[notnull]; gdf = gdf[geom_type.isin([...])]
Filter ==
  /\ pc = "filter"
  /\ gdf' = Some(FilterPolys(gdf.val))
  /\ steps' = Append(steps, "filter")
  /\ pc' = "check_empty"
  /\ UNCHANGED <<uploaded_zip, crs, epsg_detected, default_epsg, output_epsg,
                 gdf_out, ply_text, preview, download, err>>
  /\ UNCHANGED fnvars

\* Variant: the "return" after the empty-collection error is missing.
CheckEmptyNoReturn ==
  /\ pc = "check_empty"
  /\ err' = IF Len(gdf.val) = 0 THEN ErrorShown("empty", "") ELSE err
  /\ pc' = "detect"
  /\ UNCHANGED <<uploaded_zip, gdf, crs, epsg_detected, default_epsg, output_epsg,
                 gdf_out, ply_text, preview, download, steps>>
  /\ UNCHANGED fnvars

\* if gdf.empty: st.error(...); return
CheckEmpty ==
  /\ pc = "check_empty"
  /\ IF Len(gdf.val) = 0
       THEN /\ err' = ErrorShown("empty", "")
            /\ pc' = "error"
       ELSE /\ pc' = "detect"
            /\ UNCHANGED err
  /\ UNCHANGED <<uploaded_zip, gdf, crs, epsg_detected, default_epsg, output_epsg,
                 gdf_out, ply_text, preview, download, steps>>
  /\ UNCHANGED fnvars

\* print_gdf_details_to_streamlit(gdf) (display only), then the detection
\* of the default EPSG.
Detect ==
  /\ pc = "detect"
  /\ epsg_detected' = DetectEpsg(crs)
  /\ default_epsg' = Some(DefaultEpsg(DetectEpsg(crs)))
  /\ pc' = "settings"
  /\ UNCHANGED <<uploaded_zip, gdf, crs, output_epsg,
                 gdf_out, ply_text, preview, download, err, steps>>
  /\ UNCHANGED fnvars

\* output_epsg = st.number_input(value=int(default_epsg)): the default
\* unless the user typed a value.
Settings ==
  /\ pc = "settings"
  /\ \E typed \in {Absent} \cup {Some(e) : e \in TypedEPSG} :
       output_epsg' = IF typed.set THEN typed ELSE default_epsg
  /\ pc' = "button"
  /\ UNCHANGED <<uploaded_zip, gdf, crs, epsg_detected, default_epsg,
                 gdf_out, ply_text, preview, download, err, steps>>
  /\ UNCHANGED fnvars

\* Variant: the click serializes the filtered collection without reprojecting.
ButtonSkipsReproject ==
  /\ pc = "button"
  /\ \E clicked \in BOOLEAN :
       IF clicked THEN pc' = "serialize" /\ gdf_out' = gdf
       ELSE pc' = "done" /\ UNCHANGED gdf_out
  /\ UNCHANGED <<uploaded_zip, gdf, crs, epsg_detected, default_epsg, output_epsg,
                 ply_text, preview, download, err, steps>>
  /\ UNCHANGED fnvars

\* if st.button("Convert to PLY"): ... (the script ends when not clicked)
Button ==
  /\ pc = "button"
  /\ \E clicked \in BOOLEAN : pc' = IF clicked THEN "reproject" ELSE "done"
  /\ UNCHANGED <<uploaded_zip, gdf, crs, epsg_detected, default_epsg, output_epsg,
                 gdf_out, ply_text, preview, download, err, steps>>
  /\ UNCHANGED fnvars

\* Variant: the "return" after the reprojection error is missing and the
\* collection goes on untransformed.
ReprojectNoReturn ==
  /\ pc = "reproject"
  /\ LET r == ToCrs(gdf.val, crs, output_epsg.val) IN
       /\ err' = IF r.raised THEN ErrorShown("reproject", r.cause) ELSE err
       /\ gdf_out' = IF r.raised THEN gdf ELSE Some(r.gdf)
       /\ pc' = "serialize"
  /\ steps' = Append(steps, "reproject")
  /\ UNCHANGED <<uploaded_zip, gdf, crs, epsg_detected, default_epsg, output_epsg,
                 ply_text, preview, download>>
  /\ UNCHANGED fnvars

\* try: gdf_out = gdf.to_crs(epsg=int(output_epsg)) except: st.error; return
Reproject ==
  /\ pc = "reproject"
  /\ LET r == ToCrs(gdf.val, crs, output_epsg.val) IN
       IF r.raised
         THEN /\ err' = ErrorShown("reproject", r.cause)
              /\ pc' = "error"
              /\ UNCHANGED gdf_out
         ELSE /\ gdf_out' = Some(r.gdf)
              /\ pc' = "serialize"
              /\ UNCHANGED err
  /\ steps' = Append(steps, "reproject")
  /\ UNCHANGED <<uploaded_zip, gdf, crs, epsg_detected, default_epsg, output_epsg,
                 ply_text, preview, download>>
  /\ UNCHANGED fnvars

\* ply_text = geodf_to_ply_string(gdf_out); st.success(...)
Serialize ==
  /\ pc = "serialize"
  /\ ply_text' = Some(geodf_to_ply_string(gdf_out.val))
  /\ steps' = Append(steps, "serialize")
  /\ pc' = "preview"
  /\ UNCHANGED <<uploaded_zip, gdf, crs, epsg_detected, default_epsg, output_epsg,
                 gdf_out, preview, download, err>>
  /\ UNCHANGED fnvars

\* st.code("\n".join(ply_text.splitlines()[:50]))
Preview ==
  /\ pc = "preview"
  /\ preview' = Some(FirstLines(ply_text.val, PreviewLines))
  /\ pc' = "download"
  /\ UNCHANGED <<uploaded_zip, gdf, crs, epsg_detected, default_epsg, output_epsg,
                 gdf_out, ply_text, download, err, steps>>
  /\ UNCHANGED fnvars

\* st.download_button(data=ply_text, file_name=output_filename or "output.ply")
Download ==
  /\ pc = "download"
  /\ \E output_filename \in TypedFileNames :
       download' = Some([data |-> ply_text.val,
                         file_name |-> IF output_filename = "" THEN "output.ply"
                                       ELSE output_filename])
  /\ pc' = "done"
  /\ UNCHANGED <<uploaded_zip, gdf, crs, epsg_detected, default_epsg, output_epsg,
                 gdf_out, ply_text, preview, err, steps>>
  /\ UNCHANGED fnvars

\* Streamlit runs the script again from the top on the next interaction;
\* the file uploader keeps its file, nothing else of the previous run is kept
\* (a run on another upload is a run from another initial state).
Rerun ==
  /\ pc \in {"done", "error"}
  /\ pc' = "start"
  /\ UNCHANGED uploaded_zip
  /\ gdf' = Absent
  /\ crs' = NoCRS
  /\ epsg_detected' = Absent
  /\ default_epsg' = Absent
  /\ output_epsg' = Absent
  /\ gdf_out' = Absent
  /\ ply_text' = Absent
  /\ preview' = Absent
  /\ download' = Absent
  /\ err' = Absent
  /\ steps' = <<>>
  /\ UNCHANGED fnvars

Next ==
  \/ Upload
  \/ Load
  \/ Filter
  \/ CheckEmpty
  \/ Detect
  \/ Settings
  \/ Button
  \/ Reproject
  \/ Serialize
  \/ Preview
  \/ Download
  \/ Rerun

Spec == Init /\ [][Next]_vars

\* ==================================================================
\* Properties
\* ==================================================================
Range(f) == {f[i] : i \in DOMAIN f}

IsHeader(line) == line.kind = "poly"

IsPolyGeom(geom) == geom.geom_type \in {"Polygon", "MultiPolygon"}

\* The exterior rings of a geometry's polygon parts, in part order.
RingsOfGeom(geom) ==
  IF geom.geom_type = "Polygon" THEN <<geom.exterior>>
  ELSE IF geom.geom_type = "MultiPolygon"
    THEN [j \in 1..Len(geom.geoms) |-> geom.geoms[j].exterior]
  ELSE <<>>

\* The exterior rings of all polygon parts of a collection, in row order.
RECURSIVE PartRings(_)
PartRings(c) ==
  IF c = <<>> THEN <<>> ELSE RingsOfGeom(Head(c).geometry) \o PartRings(Tail(c))

\* The line at which the block of the k-th part starts.
RECURSIVE BlockStart(_, _)
BlockStart(rings, k) ==
  IF k = 1 THEN 1 ELSE BlockStart(rings, k - 1) + Len(rings[k - 1]) + 2

PipelineOrder == <<"load", "filter", "reproject", "serialize">>

IsPrefix(s, t) == Len(s) <= Len(t) /\ s = SubSeq(t, 1, Len(s))

\* The rows of the uploaded shapefile (empty before a readable upload).
LoadedRows == IF uploaded_zip.set THEN uploaded_zip.val.features ELSE <<>>

\* C1: the k-th "poly <N>" header line of the text of any collection carries
\* N = k, and there is one header per polygon part: numbers start at 1 and
\* run on across features and across the parts of a MultiPolygon.
C1_HeaderNumbers ==
  fn_text.set =>
    LET h == SelectSeq(fn_text.val, IsHeader) IN
      /\ Len(h) = Len(PartRings(fn_in))
      /\ \A k \in 1..Len(h) : h[k].n = k

\* A two-part MultiPolygon, a skipped row and a Polygon: three headers.
C1_Witness ==
  /\ fn_text.set
  /\ Len(fn_in) = 3
  /\ fn_in[1].geometry.geom_type = "MultiPolygon"
  /\ Len(fn_in[1].geometry.geoms) = 2
  /\ ~IsPolyGeom(fn_in[2].geometry)
  /\ fn_in[3].geometry.geom_type = "Polygon"
  /\ Len(SelectSeq(fn_text.val, IsHeader)) = 3

\* C2: the text is the concatenation, in part order, of one block per polygon
\* part: a header line, then one vertex line per stored vertex of the part's
\* exterior ring in ring order, then a blank line; a ring without vertices
\* gives the header line followed at once by the blank line.
C2_Blocks ==
  fn_text.set =>
    LET R == PartRings(fn_in)
        T == fn_text.val
    IN /\ Len(T) = BlockStart(R, Len(R) + 1) - 1
       /\ \A k \in 1..Len(R) :
            LET s == BlockStart(R, k)
                N == Len(R[k])
            IN /\ T[s].kind = "poly"
               /\ \A i \in 1..N : T[s + i] = VertexLine(R[k][i][1], R[k][i][2])
               /\ T[s + N + 1] = BlankLine

\* A text with a block of an empty ring and a block of a closed ring.
C2_Witness ==
  /\ fn_text.set
  /\ \E k \in 1..Len(PartRings(fn_in)) : Len(PartRings(fn_in)[k]) = 0
  /\ \E k \in 1..Len(PartRings(fn_in)) :
       LET r == PartRings(fn_in)[k] IN Len(r) >= 3 /\ r[Len(r)] = r[1]

\* C3: a run that shows an error has produced, previewed and offered no PLY
\* text; PLY text, preview and download exist only after the load, a
\* non-empty filter result and the reprojection have all succeeded.
C3_NoOutputOnError ==
  /\ err.set => ~ply_text.set /\ ~preview.set /\ ~download.set
  /\ (ply_text.set \/ preview.set \/ download.set \/ pc \in {"preview", "download"}) =>
       /\ ~err.set
       /\ IsPrefix(<<"load", "filter", "reproject">>, steps)
       /\ gdf.set /\ Len(gdf.val) > 0
       /\ gdf_out.set

\* A run ended by a failed reprojection.
C3_Witness ==
  /\ pc = "error"
  /\ err.set
  /\ err.val.kind = "reproject"
  /\ ~ply_text.set

\* C4: when the loaded rows hold no Polygon or MultiPolygon, the filter
\* step itself reports nothing, main then reports the empty-result error,
\* and neither reprojection nor serialization runs.
C4_EmptyResult ==
  (gdf.set /\ \A i \in 1..Len(LoadedRows) : ~IsPolyGeom(LoadedRows[i].geometry)) =>
    /\ pc \in {"filter", "check_empty", "error"}
    /\ pc = "check_empty" => ~err.set
    /\ pc = "error" => err.set /\ err.val.kind = "empty"
    /\ "reproject" \notin Range(steps)
    /\ "serialize" \notin Range(steps)
    /\ ~gdf_out.set /\ ~ply_text.set /\ ~preview.set /\ ~download.set

\* The empty-result error on rows that are all null or not polygons.
C4_Witness ==
  /\ pc = "error"
  /\ err.set
  /\ err.val.kind = "empty"
  /\ Len(LoadedRows) >= 2
  /\ \E i \in 1..Len(LoadedRows) : IsNull(LoadedRows[i].geometry)

\* C5: a conversion requested on a collection without a source reference
\* ends in an error other than the reprojection error of an invalid target,
\* with no reference assumed and no output.
C5_UnknownSourceDistinctError ==
  (gdf.set /\ crs.kind = "none" /\ "reproject" \in Range(steps)) =>
    /\ pc = "error"
    /\ err.set
    /\ err.val.kind # "reproject"
    /\ ~gdf_out.set
    /\ ~ply_text.set

\* C6: after the filter step the collection holds exactly the loaded rows
\* whose geometry is non-null and a Polygon or MultiPolygon, unchanged and
\* in their loaded order, and the step has reported no error.
C6_FilterExact ==
  (gdf.set /\ pc \notin {"filter"}) =>
    LET L == LoadedRows
        F == gdf.val
    IN /\ \A k \in 1..Len(F) :
            /\ F[k].id \in 1..Len(L)
            /\ F[k] = L[F[k].id]
            /\ ~IsNull(F[k].geometry)
            /\ IsPolyGeom(F[k].geometry)
       /\ \A i \in 1..Len(L) :
            (~IsNull(L[i].geometry) /\ IsPolyGeom(L[i].geometry))
              => \E k \in 1..Len(F) : F[k].id = i
       /\ \A k \in 1..(Len(F) - 1) : F[k].id < F[k + 1].id
       /\ pc = "check_empty" => ~err.set

\* Three loaded rows, the middle one dropped, a MultiPolygon kept.
C6_Witness ==
  /\ pc = "check_empty"
  /\ gdf.set
  /\ Len(LoadedRows) = 3
  /\ Len(gdf.val) = 2
  /\ ~IsPolyGeom(LoadedRows[2].geometry)
  /\ gdf.val[2].geometry.geom_type = "MultiPolygon"

\* C7: filtering a filtered collection returns it unchanged.
C7_FilterIdempotent ==
  fn_flt2.set => fn_flt2.val = fn_flt.val

\* A collection of which the filter drops some rows and keeps others.
C7_Witness ==
  /\ fn_flt2.set
  /\ Len(fn_flt.val) >= 1
  /\ Len(fn_flt.val) < Len(fn_in)

\* C8 as stated: the default target is the source reference whenever the
\* source reference is set, and 4326 only when it is not set.
C8_DefaultIsSourceWhenKnown ==
  default_epsg.set =>
    IF crs.kind # "none"
      THEN crs.kind = "epsg" /\ default_epsg.val = crs.code
      ELSE default_epsg.val = FallbackEPSG

\* C8 amended: the default target is the source's EPSG code when the source
\* reference is set and to_epsg() resolves it to a code, and 4326 in every
\* other case (no source reference, to_epsg() returns None or raises).
C8_DefaultIsResolvedCode ==
  default_epsg.set =>
    default_epsg.val = (IF crs.kind = "epsg" THEN crs.code ELSE FallbackEPSG)

\* The default of a source that resolves to a code other than the fallback.
C8_Witness ==
  /\ pc = "settings"
  /\ crs.kind = "epsg"
  /\ crs.code # FallbackEPSG
  /\ default_epsg.set
  /\ default_epsg.val = crs.code

\* The steps taken so far are a prefix of the pipeline; serialization is
\* entered only with a reprojected collection and no error.
C9_StateOrder ==
  /\ IsPrefix(steps, PipelineOrder)
  /\ pc = "serialize" => (steps = SubSeq(PipelineOrder, 1, 3) /\ gdf_out.set /\ ~err.set)
  /\ ply_text.set => (steps = PipelineOrder /\ gdf_out.set)

\* A step taken while the text exists leaves collection and text alone.
C9_NoChangeAfterSerialize ==
  (ply_text.set /\ ply_text'.set) =>
    (gdf' = gdf /\ gdf_out' = gdf_out /\ ply_text' = ply_text /\ steps' = steps)

\* C9: the steps of a run are a prefix of load, filter, reproject,
\* serialize (each at most once, in this order); serialization starts only
\* after a successful reprojection; once the text exists, the collection and
\* the text are not changed by the rest of the run.
C9_Pipeline == []C9_StateOrder /\ [][C9_NoChangeAfterSerialize]_vars

\* A run that went through all four steps and offered the download.
C9_Witness ==
  /\ pc = "done"
  /\ download.set
  /\ steps = PipelineOrder
  /\ download.val.data = ply_text.val

\* C10: the text of a collection is the text of the filtered collection:
\* skipped geometries write nothing and take no polygon number.
C10_SerializeFilters ==
  (fn_text.set /\ fn_flt_text.set) => fn_text.val = fn_flt_text.val

\* A collection whose first row is skipped and whose last row is written.
C10_Witness ==
  /\ fn_text.set
  /\ fn_flt_text.set
  /\ Len(fn_in) >= 2
  /\ ~IsPolyGeom(fn_in[1].geometry)
  /\ IsPolyGeom(fn_in[Len(fn_in)].geometry)
  /\ Len(fn_text.val) > 0

====
